---- MODULE Spec2Model ----
(***************************************************************************)
(* A model of scripts/update_stats.py: the pager over the owned            *)
(* repositories, the all-time contribution aggregator, the classifier and  *)
(* sorter, the renderer and the README patcher, as main() runs them.       *)
(*                                                                         *)
(* Text is a sequence of tokens.  A token is one character, except that    *)
(* each of the two marker literals is one token (neither marker can        *)
(* overlap itself or the other, so a scan over tokens finds the same       *)
(* occurrences as a scan over characters).                                 *)
(***************************************************************************)
EXTENDS Integers, Sequences, FiniteSets, TLC

VARIABLES
    pc,        \* where main() stands
    LOGIN,     \* the configured login (line 8), a non-empty text
    cursor,    \* pager: the cursor of the next request (None before the first)
    repos,     \* pager: the accumulated repository list
    total,     \* pager: the running sum of star counts
    years,     \* aggregator: the list get_years() returned
    yi,        \* aggregator: index in years of the year being processed
    repo_map,  \* collect_by_year: the year's map, in insertion order
    phase,     \* collect_by_year: which of the three lists is being folded
    merged,    \* aggregator: the all-time map, in insertion order
    contrib,   \* the aggregator's result {mine, others, count_total}
    block,     \* main: the rendered block
    readme,    \* the text of the file README.md
    content,   \* main: the text read from README.md
    new,       \* main: the patched text
    out,       \* the lines printed on standard output
    hist       \* history variables (not program state), see HistInit

docVars == <<block, readme, content, new, out>>

vars == <<pc, LOGIN, cursor, repos, total, years, yi, repo_map, phase, merged,
          contrib, docVars, hist>>

None == "None"

\* the two markers of line 244, the newline and the backslash
START == "<!--STATS:START-->"
END == "<!--STATS:END-->"
NL == "\n"
BSL == "\\"

\* ------------------------------------------------------------------ bounds
MaxYear == 3
MaxEntries == 2
MaxRepos == 3
MaxPages == 2
MaxNodes == 2
MaxDoc == 4
MaxBlock == 2

\* datetime.datetime.utcnow().year, fixed for one run
CurYear == 2

\* ------------------------------------------------------------------ helpers
Kinds == <<"commit", "pr", "issue">>

RECURSIVE SeqSum(_)
SeqSum(s) == IF s = <<>> THEN 0 ELSE Head(s) + SeqSum(Tail(s))

Range(s) == {s[i] : i \in 1..Len(s)}

\* t[n:]
Drop(t, n) == SubSeq(t, n + 1, Len(t))

\* index of the first tok in doc at or after from, 0 when there is none
FirstAt(doc, tok, from) ==
    LET P == {i \in from..Len(doc) : doc[i] = tok}
    IN  IF P = {} THEN 0 ELSE CHOOSE i \in P : \A j \in P : i <= j

\* position of the record named k in an insertion-ordered map, 0 when absent
IndexOf(map, k) ==
    IF \E i \in 1..Len(map) : map[i].name = k
    THEN CHOOSE i \in 1..Len(map) : map[i].name = k
    ELSE 0

\* rec[key] += n
Bump(rec, key, n) ==
    CASE key = "commit" -> [rec EXCEPT !.commit = @ + n]
      [] key = "pr"     -> [rec EXCEPT !.pr = @ + n]
      [] key = "issue"  -> [rec EXCEPT !.issue = @ + n]

\* ------------------------------------------------------------- get_years
\* sorted(S) for a set of integers
RECURSIVE Sorted(_)
Sorted(S) ==
    IF S = {} THEN <<>>
    ELSE LET m == CHOOSE x \in S : \A y \in S : x <= y
         IN  <<m>> \o Sorted(S \ {m})

\* lines 63-67
GetYearsList(contributionYears, y) ==
    LET ys == Sorted(Range(contributionYears))
    IN  IF y \notin Range(ys) THEN Append(ys, y) ELSE ys

\* ------------------------------------------------------- collect_by_year
\* add(repo, key, n), lines 95-104
Add(map, repo, key, n) ==
    LET k  == repo.nameWithOwner
        m1 == IF IndexOf(map, k) = 0
              THEN Append(map, [name |-> k, url |-> repo.url,
                                stars |-> repo.stargazerCount,
                                forks |-> repo.forkCount,
                                commit |-> 0, pr |-> 0, issue |-> 0])
              ELSE map
        i  == IndexOf(m1, k)
    IN  [m1 EXCEPT ![i] = [Bump(@, key, n) EXCEPT
                              !.stars = repo.stargazerCount,
                              !.forks = repo.forkCount,
                              !.url = repo.url]]

\* ------------------------------------- aggregate_contributions_all_time
\* as MergeOne, the counters of a repository seen before replaced, not
\* added to
MergeOneOverwrite(m, rec) ==
    IF IndexOf(m, rec.name) = 0 THEN Append(m, rec)
    ELSE [m EXCEPT ![IndexOf(m, rec.name)] = rec]

\* the body of the loop over part.items(), lines 121-128
MergeOne(m, rec) ==
    LET m1 == IF IndexOf(m, rec.name) = 0
              THEN Append(m, rec)
              ELSE [m EXCEPT ![IndexOf(m, rec.name)] =
                        [@ EXCEPT !.commit = @ + rec.commit,
                                  !.pr = @ + rec.pr,
                                  !.issue = @ + rec.issue]]
        i  == IndexOf(m1, rec.name)
    IN  [m1 EXCEPT ![i] = [@ EXCEPT !.stars = rec.stars,
                                    !.forks = rec.forks,
                                    !.url = rec.url]]

RECURSIVE MergePart(_, _)
MergePart(m, part) ==
    IF part = <<>> THEN m
    ELSE MergePart(MergeOne(m, Head(part)), Tail(part))

\* ------------------------------------------------------ classify and sort
\* str.lower() and str.upper() on the characters the model uses
Lower(c) ==
    CASE c = "A" -> "a" [] c = "B" -> "b" [] c = "Q" -> "q"
      [] c = "R" -> "r" [] c = "S" -> "s" [] OTHER -> c

Upper(c) ==
    CASE c = "a" -> "A" [] c = "b" -> "B" [] c = "q" -> "Q"
      [] c = "r" -> "R" [] c = "s" -> "S" [] OTHER -> c

LowerStr(s) == [i \in 1..Len(s) |-> Lower(s[i])]

\* name.split("/")[0].lower() if "/" in name else "", line 139
Owner(name) ==
    IF \E i \in 1..Len(name) : name[i] = "/"
    THEN LET j == CHOOSE i \in 1..Len(name) :
                      name[i] = "/" /\ \A h \in 1..(i - 1) : name[h] # "/"
         IN  LowerStr(SubSeq(name, 1, j - 1))
    ELSE <<>>

\* as IsMine, the login compared as it is written
IsMineCaseSensitive(name, login) == Owner(name) = login

\* owner == LOGIN.lower(), line 140
IsMine(name, login) == Owner(name) = LowerStr(login)

\* as KeyLess, for a key of the stars alone
KeyLessStarsOnly(a, b) == a.stars > b.stars

\* keyf(a) < keyf(b) for keyf = (-stars, -forks), line 142
KeyLess(a, b) ==
    \/ a.stars > b.stars
    \/ a.stars = b.stars /\ a.forks > b.forks

\* list.sort(key=keyf): a stable sort, here by insertion
InsertRow(sorted, r) ==
    LET before == {i \in 1..Len(sorted) : ~KeyLess(r, sorted[i])}
        n == IF before = {} THEN 0
             ELSE CHOOSE i \in before : \A j \in before : j <= i
    IN  SubSeq(sorted, 1, n) \o <<r>> \o SubSeq(sorted, n + 1, Len(sorted))

RECURSIVE SortRows(_)
SortRows(rows) ==
    IF rows = <<>> THEN <<>>
    ELSE InsertRow(SortRows(SubSeq(rows, 1, Len(rows) - 1)), rows[Len(rows)])

\* lines 132-138
Row(v) ==
    [name |-> v.name, url |-> v.url, stars |-> v.stars, forks |-> v.forks,
     commit |-> v.commit, pr |-> v.pr, issue |-> v.issue,
     total |-> v.commit + v.pr + v.issue]

\* the loop of lines 131-140 for one of the two lists
RECURSIVE Select(_, _, _)
Select(m, login, mine) ==
    IF m = <<>> THEN <<>>
    ELSE LET v == Head(m)
             rest == Select(Tail(m), login, mine)
         IN  IF v.commit + v.pr + v.issue = 0 THEN rest
             ELSE IF IsMine(v.name, login) = mine THEN <<Row(v)>> \o rest
             ELSE rest

\* lines 130-146
ClassifyAll(m, login) ==
    LET mine   == SortRows(Select(m, login, TRUE))
        others == SortRows(Select(m, login, FALSE))
    IN  [mine |-> mine, others |-> others,
         count_total |-> Len(mine) + Len(others)]

\* ------------------------------------------------------ the renderer
\* A fixed piece of markup is one token, its emoji and backquotes written
\* in ASCII.  Star counts in the model stay below 1000, where to_k_plus(n)
\* is str(n) and repo_chip adds no mark.
DigitChar(d) ==
    CASE d = 0 -> "0" [] d = 1 -> "1" [] d = 2 -> "2" [] d = 3 -> "3"
      [] d = 4 -> "4" [] d = 5 -> "5" [] d = 6 -> "6" [] d = 7 -> "7"
      [] d = 8 -> "8" [] d = 9 -> "9"

\* str(n), n >= 0
RECURSIVE Str(_)
Str(n) ==
    IF n < 10 THEN <<DigitChar(n)>>
    ELSE Str(n \div 10) \o <<DigitChar(n % 10)>>

\* full_name.split("/")[-1], line 161
LastSegment(name) ==
    LET slashes == {i \in 1..Len(name) : name[i] = "/"}
    IN  IF slashes = {} THEN name
        ELSE Drop(name, CHOOSE i \in slashes : \A j \in slashes : j <= i)

\* repo.replace("-", " ").replace("_", " "), line 162
Spaced(s) == [i \in 1..Len(s) |-> IF s[i] \in {"-", "_"} THEN " " ELSE s[i]]

\* str.split(): the words between runs of spaces
RECURSIVE Words(_)
Words(s) ==
    IF s = <<>> THEN <<>>
    ELSE IF Head(s) = " " THEN Words(Tail(s))
    ELSE LET e == FirstAt(s, " ", 1)
             n == IF e = 0 THEN Len(s) ELSE e - 1
         IN  <<SubSeq(s, 1, n)>> \o Words(Drop(s, n))

\* str.capitalize()
Capitalize(w) == <<Upper(Head(w))>> \o LowerStr(Tail(w))

\* " ".join(ws)
RECURSIVE Join(_, _)
Join(ws, sep) ==
    IF ws = <<>> THEN <<>>
    ELSE IF Len(ws) = 1 THEN Head(ws)
    ELSE Head(ws) \o sep \o Join(Tail(ws), sep)

\* lines 157-164
PrettyRepoText(full_name) ==
    LET ws == Words(Spaced(LastSegment(full_name)))
    IN  Join([i \in 1..Len(ws) |-> Capitalize(ws[i])], <<" ">>)

\* lines 166-172
RepoChip(name, url, stars, forks) ==
    <<"<a href=\"", url, "\">">> \o PrettyRepoText(name)
    \o <<"</a> <sub>. * ">> \o Str(stars) \o <<" . Y ">> \o Str(forks)
    \o <<"</sub>">>

\* lines 174-186
MdTableContrib(rows) ==
    IF rows = <<>> THEN <<"_(empty)_">>
    ELSE Join(<< <<"| Repository | Commits | PRs | Issues | Total |", NL,
                   "|:--|--:|--:|--:|--:|">> >>
              \o [i \in 1..Len(rows) |->
                    <<"| ">>
                    \o RepoChip(rows[i].name, rows[i].url, rows[i].stars,
                                rows[i].forks)
                    \o <<" | <">> \o Str(rows[i].commit)
                    \o <<"> | <">> \o Str(rows[i].pr)
                    \o <<"> | <">> \o Str(rows[i].issue)
                    \o <<"> | **<">> \o Str(rows[i].total) \o <<">** |">>],
              <<NL>>)

\* lines 188-193
MdListOwnStars(rows) ==
    IF rows = <<>> THEN <<"_(empty)_">>
    ELSE Join([i \in 1..Len(rows) |->
                  <<"- ">> \o RepoChip(rows[i].name, rows[i].url,
                                       rows[i].stars, rows[i].forks)],
              <<NL>>)

\* lines 197-232
RenderMarkdown(own_repos, total_stars, c) ==
    <<"<div align=\"left\">", NL, NL,
      "<details>", NL, "  <summary><b>Total Stars Earned:</b> <code>">>
    \o Str(total_stars)
    \o <<"</code></summary>", NL, NL, "  <br/>", NL>>
    \o MdListOwnStars(own_repos)
    \o <<NL, "</details>", NL, NL,
          "<details>", NL, "  <summary><b>Contributed to:</b> <code>">>
    \o Str(c.count_total)
    \o <<"</code></summary>", NL, NL, "  <br/>", NL,
          "  <div><b>Other Repos</b></div>", NL, NL>>
    \o MdTableContrib(c.others)
    \o <<NL, NL, "  <br/><br/>", NL, "  <div><b>My Repos</b></div>", NL, NL>>
    \o MdTableContrib(c.mine)
    \o <<NL, NL, "</details>", NL, NL, "</div>">>

\* ------------------------------------------------------ the patcher
\* re.sub(pattern, r"\1\n" + block + r"\n\3", content), lines 244-245.
\* The replacement is a template: re parses it once, before it searches, and
\* raises re.error when it is ill-formed; a backslash in it starts an escape.
\* In the texts of the model a backslash is followed only by a digit, a
\* backslash, n, "-" or a marker.
Digits == {"1", "2", "3"}

DigitValue(d) == CASE d = "1" -> 1 [] d = "2" -> 2 [] d = "3" -> 3

\* as Template, the replaced text kept after the block
TemplateKeepsOld(b) ==
    <<BSL, "1", BSL, "n">> \o b \o <<BSL, "n", BSL, "2", BSL, "3">>

\* line 245: the template
Template(b) == <<BSL, "1", BSL, "n">> \o b \o <<BSL, "n", BSL, "3">>

\* the template parses: no backslash at its end, no reference to a group
\* the pattern does not have (a reference of two digits names a group
\* above 3; three octal digits are a character code)
RECURSIVE TemplateOk(_)
TemplateOk(t) ==
    LET b == FirstAt(t, BSL, 1)
    IN  IF b = 0 THEN TRUE
        ELSE IF b = Len(t) THEN FALSE
        ELSE IF t[b + 1] \in Digits /\ Len(t) >= b + 2 /\ t[b + 2] \in Digits
             THEN IF Len(t) >= b + 3 /\ t[b + 3] \in Digits
                  THEN TemplateOk(Drop(t, b + 3))
                  ELSE FALSE
        ELSE TemplateOk(Drop(t, b + 1))

\* the text a parsed template stands for, g the groups of the match: the
\* text before the first backslash, what the escape stands for, and the
\* expansion of the rest
RECURSIVE Expand(_, _)
Expand(t, g) ==
    LET b == FirstAt(t, BSL, 1)
        c == t[b + 1]
    IN  IF b = 0 THEN t
        ELSE SubSeq(t, 1, b - 1) \o
             IF c \in Digits
             THEN IF Len(t) >= b + 3 /\ t[b + 2] \in Digits /\ t[b + 3] \in Digits
                  THEN <<"<octal>">> \o Expand(Drop(t, b + 3), g)
                  ELSE g[DigitValue(c)] \o Expand(Drop(t, b + 1), g)
             ELSE IF c = BSL THEN <<BSL>> \o Expand(Drop(t, b + 1), g)
             ELSE IF c = "n" THEN <<NL>> \o Expand(Drop(t, b + 1), g)
             ELSE <<BSL, c>> \o Expand(Drop(t, b + 1), g)

\* every non-overlapping match of (START)(.*?)(END), left to right, gives
\* way to the expansion of the template
RECURSIVE SubAll(_, _)
SubAll(doc, tpl) ==
    LET i == FirstAt(doc, START, 1)
        j == IF i = 0 THEN 0 ELSE FirstAt(doc, END, i + 1)
    IN  IF j = 0 THEN doc
        ELSE SubSeq(doc, 1, i - 1)
             \o Expand(tpl, << <<doc[i]>>, SubSeq(doc, i + 1, j - 1), <<doc[j]>> >>)
             \o SubAll(Drop(doc, j), tpl)

ReSub(doc, b) ==
    IF TemplateOk(Template(b))
    THEN [ok |-> TRUE, text |-> SubAll(doc, Template(b))]
    ELSE [ok |-> FALSE, text |-> <<>>]

\* as WriteNeeded, the file written in every run
WriteAlways(n, c) == TRUE

\* line 247
WriteNeeded(n, c) == n # c

\* ------------------------------------------------------------ the inputs
Repo(n, u, s, f) ==
    [nameWithOwner |-> n, url |-> u, stargazerCount |-> s, forkCount |-> f]

\* repository names the collaborator reports
AllNames ==
    { <<"a", "/", "r">>, <<"A", "/", "q">>, <<"B", "/", "a", "/", "r">>, <<"a">> }

\* the repositories of the aggregator's runs
AggNames == { <<"a", "/", "r">>, <<"B", "/", "a", "/", "r">> }

\* the repositories of main()'s runs
MainNames == { <<"a", "/", "r", "-", "s">>, <<"b", "/", "q">> }

ReportedNames == AllNames \cup AggNames \cup MainNames

\* the popularity snapshots the collaborator reports
Snaps ==
    { [url |-> "u1", stars |-> 1, forks |-> 1],
      [url |-> "u2", stars |-> 2, forks |-> 0] }

\* the totalCount values the collaborator reports
Counts == {0, 2}

\* one element of a ...ContributionsByRepository list
Entries(names) ==
    { [repository |-> Repo(n, s.url, s.stars, s.forks),
       contributions |-> [totalCount |-> c]] :
         n \in names, s \in Snaps, c \in Counts }

YearLists == {<<>>} \cup {<<a>> : a \in 1..MaxYear}
                   \cup {<<a, b>> : a \in 1..MaxYear, b \in 1..MaxYear}

Logins == { <<"a">>, <<"B">> }

\* ---------------------------------------------------- history variables
ZeroCount == [commit |-> 0, pr |-> 0, issue |-> 0]

HistInit ==
    [calls    |-> 0,        \* collaborator calls made so far
     failed   |-> FALSE,    \* a collaborator call has raised
     failedAt |-> 0,        \* the number of the call that raised
     returned |-> {},       \* the years the collaborator returned
     queried  |-> <<>>,     \* the years queried, in order
     reqs     |-> <<>>,     \* pager: the cursor of each request made
     pages    |-> <<>>,     \* pager: each page received
     nEntries |-> 0,        \* entries folded so far in this run
     run      |-> 1,        \* which run of the script this is
     wrote    |-> FALSE,    \* this run has written README.md
     wrote1   |-> FALSE,    \* the first run wrote README.md
     readme0  |-> <<>>,     \* README.md as this run found it
     sums     |-> [n \in ReportedNames |-> ZeroCount],  \* totalCounts seen
     obs      |-> {}]       \* <<name, year, snapshot>> seen

\* ---------------------------------------------------------- the actions
\* as Raise, the exception caught and the run carried on to the renderer
RaiseSwallowed(at) == "render"

\* gql() raises (lines 16, 19): the exception leaves main()
Raise(at) == "aborted"

GqlFail ==
    /\ \/ pc \in {"pager", "years"}
       \/ pc = "collect" /\ yi <= Len(years)
    /\ pc' = Raise(pc)
    /\ hist' = [hist EXCEPT !.calls = @ + 1, !.failed = TRUE,
                            !.failedAt = hist.calls + 1]
    /\ UNCHANGED <<docVars, LOGIN, cursor, repos, total, years, yi, repo_map, phase,
                   merged, contrib>>

\* lines 40-47: the page's nodes appended to repos
RECURSIVE AddNodes(_, _)
AddNodes(rs, nodes) ==
    IF nodes = <<>> THEN rs
    ELSE AddNodes(Append(rs, [name |-> Head(nodes).nameWithOwner,
                              url |-> Head(nodes).url,
                              stars |-> Head(nodes).stargazerCount,
                              forks |-> Head(nodes).forkCount]),
                  Tail(nodes))

\* line 41: total += n["stargazerCount"] for each node
RECURSIVE AddStars(_, _)
AddStars(t, nodes) ==
    IF nodes = <<>> THEN t
    ELSE AddStars(t + Head(nodes).stargazerCount, Tail(nodes))

\* as NextCursor, the cursor left as it was
NextCursorStale(cur, page) == cur

\* line 49
NextCursor(cur, page) == page.pageInfo.endCursor

\* get_own_public_repos_and_total_stars(), lines 24-53: one turn of the
\* loop, the collaborator answering with page; after the last page the list
\* is sorted and the function returns
PagerPage(page) ==
    /\ pc = "pager"
    /\ hist' = [hist EXCEPT !.calls = @ + 1,
                            !.reqs = Append(@, cursor),
                            !.pages = Append(@, page)]
    /\ total' = AddStars(total, page.nodes)
    /\ IF page.pageInfo.hasNextPage
       THEN /\ cursor' = NextCursor(cursor, page)
            /\ repos' = AddNodes(repos, page.nodes)
            /\ pc' = "pager"
       ELSE /\ cursor' = cursor
            /\ repos' = SortRows(AddNodes(repos, page.nodes))
            /\ pc' = "years"
    /\ UNCHANGED <<docVars, LOGIN, years, yi, repo_map, phase, merged, contrib>>

\* get_years(), lines 55-67, the collaborator returning contributionYears
GetYears(contributionYears) ==
    /\ pc = "years"
    /\ years' = GetYearsList(contributionYears, CurYear)
    /\ yi' = 1
    /\ merged' = <<>>
    /\ pc' = "collect"
    /\ hist' = [hist EXCEPT !.calls = @ + 1,
                            !.returned = Range(contributionYears)]
    /\ UNCHANGED <<docVars, LOGIN, cursor, repos, total, repo_map, phase, contrib>>

\* collect_by_year(y), lines 69-94: the query of year years[yi] answered
CollectQuery ==
    /\ pc = "collect"
    /\ yi <= Len(years)
    /\ repo_map' = <<>>
    /\ phase' = 1
    /\ pc' = "fold"
    /\ hist' = [hist EXCEPT !.calls = @ + 1,
                            !.queried = Append(@, years[yi])]
    /\ UNCHANGED <<docVars, LOGIN, cursor, repos, total, years, yi, merged, contrib>>

\* lines 106-111: the next element of the answer is folded.  The answer's
\* three lists are read in the order commit, pr, issue; the model draws
\* their elements one at a time, which yields every answer of at most
\* MaxEntries elements.
AddEntry(k, r) ==
    /\ pc = "fold"
    /\ k >= phase
    /\ hist.nEntries < MaxEntries
    /\ repo_map' = Add(repo_map, r.repository, Kinds[k],
                       r.contributions.totalCount)
    /\ phase' = k
    /\ hist' = [hist EXCEPT
          !.nEntries = @ + 1,
          !.sums[r.repository.nameWithOwner] =
              Bump(@, Kinds[k], r.contributions.totalCount),
          !.obs = @ \cup {<<r.repository.nameWithOwner, years[yi],
                            [url |-> r.repository.url,
                             stars |-> r.repository.stargazerCount,
                             forks |-> r.repository.forkCount]>>}]
    /\ UNCHANGED <<docVars, pc, LOGIN, cursor, repos, total, years, yi, merged, contrib>>

\* line 113 and lines 120-128: the year's map is merged
EndYear ==
    /\ pc = "fold"
    /\ merged' = MergePart(merged, repo_map)
    /\ repo_map' = <<>>
    /\ yi' = yi + 1
    /\ pc' = "collect"
    /\ UNCHANGED <<docVars, LOGIN, cursor, repos, total, years, phase, contrib, hist>>

\* lines 130-146, after the last year
Classify ==
    /\ pc = "collect"
    /\ yi > Len(years)
    /\ contrib' = ClassifyAll(merged, LOGIN)
    /\ pc' = "render"
    /\ UNCHANGED <<docVars, LOGIN, cursor, repos, total, years, yi, repo_map, phase,
                   merged, hist>>

\* line 239
Render ==
    /\ pc = "render"
    /\ block' = RenderMarkdown(repos, total, contrib)
    /\ pc' = "read"
    /\ UNCHANGED <<LOGIN, cursor, repos, total, years, yi, repo_map, phase,
                   merged, contrib, readme, content, new, out, hist>>

\* lines 241-242
ReadDoc ==
    /\ pc = "read"
    /\ content' = readme
    /\ pc' = "patch"
    /\ UNCHANGED <<LOGIN, cursor, repos, total, years, yi, repo_map, phase,
                   merged, contrib, block, readme, new, out, hist>>

\* lines 244-245; re.error leaves main()
Patch ==
    /\ pc = "patch"
    /\ LET r == ReSub(content, block)
       IN  IF r.ok THEN new' = r.text /\ pc' = "write"
           ELSE new' = new /\ pc' = "aborted"
    /\ UNCHANGED <<LOGIN, cursor, repos, total, years, yi, repo_map, phase,
                   merged, contrib, block, readme, content, out, hist>>

\* lines 247-252
WriteOrPrint ==
    /\ pc = "write"
    /\ IF WriteNeeded(new, content)
       THEN /\ readme' = new
            /\ out' = Append(out, "README updated.")
            /\ hist' = [hist EXCEPT !.wrote = TRUE]
       ELSE /\ readme' = readme
            /\ out' = Append(out, "No changes.")
            /\ hist' = hist
    /\ pc' = "done"
    /\ UNCHANGED <<LOGIN, cursor, repos, total, years, yi, repo_map, phase,
                   merged, contrib, block, content, new>>

\* -------------------------------------------------------- the aggregator
\* a README of one empty marker pair, nothing rendered, read or printed yet
NoDoc ==
    /\ block = <<>>
    /\ readme = <<START, END>>
    /\ content = <<>> /\ new = <<>> /\ out = <<>>

NoContrib == [mine |-> <<>>, others |-> <<>>, count_total |-> 0]

InitAgg ==
    /\ pc = "years"
    /\ LOGIN = <<"a">>
    /\ cursor = None /\ repos = <<>> /\ total = 0
    /\ years = <<>> /\ yi = 1
    /\ repo_map = <<>> /\ phase = 1
    /\ merged = <<>>
    /\ contrib = NoContrib
    /\ NoDoc
    /\ hist = [HistInit EXCEPT !.readme0 = readme]

NextAgg ==
    \/ GqlFail
    \/ \E ys \in YearLists : GetYears(ys)
    \/ CollectQuery
    \/ \E k \in 1..3, r \in Entries(AggNames) : AddEntry(k, r)
    \/ EndYear
    \/ Classify

SpecAgg == InitAgg /\ [][NextAgg]_vars

\* aggregate_contributions_all_time() has returned
AfterAggregate == pc \in {"render", "read", "patch", "write", "done"}

OutRows == Range(contrib.mine) \cup Range(contrib.others)

\* what was seen of the repository named n: <<name, year, snapshot>>
ObsOf(n) == {o \in hist.obs : o[1] = n}

\* C1: every output row's commit, pr and issue counters are the sums of the
\* totalCounts seen for that repository and kind over all processed years,
\* and its total is commit + pr + issue.
C1_CountersAreSums ==
    AfterAggregate =>
        \A r \in OutRows :
            /\ r.commit = hist.sums[r.name].commit
            /\ r.pr = hist.sums[r.name].pr
            /\ r.issue = hist.sums[r.name].issue
            /\ r.total = r.commit + r.pr + r.issue

\* a repository with contributions in two different years is reported
C1_Witness ==
    /\ AfterAggregate
    /\ \E r \in OutRows :
          /\ r.total >= 2
          /\ \E o1, o2 \in ObsOf(r.name) : o1[2] # o2[2]

\* C3: a repository seen in two different years with different star counts
\* ends with the stars, forks and url seen in the later calendar year.
C3_LaterYearSnapshot ==
    AfterAggregate =>
        \A i \in 1..Len(merged) :
            LET O == ObsOf(merged[i].name)
            IN  (\E o1, o2 \in O : o1[2] # o2[2] /\ o1[3].stars # o2[3].stars)
                => \E o \in O :
                      /\ \A p \in O : p[2] <= o[2]
                      /\ merged[i].stars = o[3].stars
                      /\ merged[i].forks = o[3].forks
                      /\ merged[i].url = o[3].url

\* C9: the years queried are strictly ascending (so none is queried twice)
\* and, once the aggregator is through, contain the current year and every
\* year the collaborator returned.
C9_QueriedAscending ==
    /\ \A i, j \in 1..Len(hist.queried) :
          i < j => hist.queried[i] < hist.queried[j]
    /\ AfterAggregate =>
          /\ CurYear \in Range(hist.queried)
          /\ hist.returned \subseteq Range(hist.queried)

\* ------------------------------------------------- the classifier alone
\* the (stars, forks) pairs of the classifier's inputs
SortSnaps ==
    { [url |-> "u1", stars |-> 1, forks |-> 1],
      [url |-> "u2", stars |-> 1, forks |-> 2],
      [url |-> "u3", stars |-> 2, forks |-> 0] }

CounterChoices == { ZeroCount, [commit |-> 1, pr |-> 0, issue |-> 2] }

MergedRecords ==
    { [name |-> n, url |-> s.url, stars |-> s.stars, forks |-> s.forks,
       commit |-> c.commit, pr |-> c.pr, issue |-> c.issue] :
         n \in AllNames, s \in SortSnaps, c \in CounterChoices }

\* the maps the year loop can leave: records with distinct names, in any
\* insertion order
MergedInputs ==
    UNION { { m \in [1..k -> MergedRecords] :
                \A i, j \in 1..k : i # j => m[i].name # m[j].name } :
            k \in 0..MaxRepos }

InitClassify ==
    /\ pc = "collect"
    /\ LOGIN \in Logins
    /\ cursor = None /\ repos = <<>> /\ total = 0
    /\ years = <<CurYear>> /\ yi = 2
    /\ repo_map = <<>> /\ phase = 1
    /\ merged \in MergedInputs
    /\ contrib = NoContrib
    /\ NoDoc
    /\ hist = [HistInit EXCEPT !.readme0 = readme]

NextClassify == Classify

SpecClassify == InitClassify /\ [][NextClassify]_vars

\* the text before the first "/" of a name, empty when it has none
OwnerSegment(name) ==
    LET slashes == {i \in 1..Len(name) : name[i] = "/"}
    IN  IF slashes = {} THEN <<>>
        ELSE SubSeq(name, 1, (CHOOSE i \in slashes : \A j \in slashes : i <= j) - 1)

SameIgnoringCase(s, t) ==
    /\ Len(s) = Len(t)
    /\ \A i \in 1..Len(s) : Upper(s[i]) = Upper(t[i])

TimesIn(list, n) == Cardinality({i \in 1..Len(list) : list[i].name = n})

\* C2: a record of total 0 is in neither list; a record of total > 0 is in
\* exactly one of them, in mine exactly when the text before the first "/"
\* of its name equals the login, compared without regard to case.
C2_Partition ==
    AfterAggregate =>
        \A i \in 1..Len(merged) :
            LET v == merged[i]
                inMine == TimesIn(contrib.mine, v.name)
                inOthers == TimesIn(contrib.others, v.name)
            IN  IF v.commit + v.pr + v.issue = 0
                THEN inMine = 0 /\ inOthers = 0
                ELSE /\ inMine + inOthers = 1
                     /\ inMine = 1 <=>
                            SameIgnoringCase(OwnerSegment(v.name), LOGIN)

\* a dropped record, a record in mine whose owner differs from the login
\* in case only, and a record in others
C2_Witness ==
    /\ AfterAggregate
    /\ \E i \in 1..Len(merged) : merged[i].commit + merged[i].pr + merged[i].issue = 0
    /\ \E i \in 1..Len(contrib.mine) :
          OwnerSegment(contrib.mine[i].name) # LOGIN
    /\ Len(contrib.others) > 0

SameKey(a, b) == a.stars = b.stars /\ a.forks = b.forks

SortedStable(list) ==
    /\ \A i \in 1..(Len(list) - 1) :
          \/ list[i].stars > list[i + 1].stars
          \/ list[i].stars = list[i + 1].stars /\ list[i].forks >= list[i + 1].forks
    /\ \A i, j \in 1..Len(list) :
          (i < j /\ SameKey(list[i], list[j]))
              => IndexOf(merged, list[i].name) < IndexOf(merged, list[j].name)

\* C8: each output list is in descending order of stars, then of forks, and
\* rows of equal stars and forks keep the order of the aggregation map.
C8_SortedStable ==
    AfterAggregate => SortedStable(contrib.mine) /\ SortedStable(contrib.others)

\* a list of three rows that the sort reordered and that holds a tie
C8_Witness ==
    /\ AfterAggregate
    /\ Len(contrib.others) = 3
    /\ SameKey(contrib.others[2], contrib.others[3])
    /\ IndexOf(merged, contrib.others[1].name) > IndexOf(merged, contrib.others[3].name)

\* ------------------------------------------------------- the pager alone
OwnNodes ==
    { Repo(<<"a", "/", "r">>, "u1", 1, 1), Repo(<<"a", "/", "s">>, "u2", 2, 0) }

NodeLists == UNION { [1..k -> OwnNodes] : k \in 0..MaxNodes }

Cursors == { None, "c1", "c2" }

\* the pages the collaborator may answer with; it reports no next page on
\* its MaxPages-th page at the latest
Pages(more) ==
    { [nodes |-> ns, pageInfo |-> [hasNextPage |-> h, endCursor |-> c]] :
        ns \in NodeLists, h \in (IF more THEN BOOLEAN ELSE {FALSE}),
        c \in Cursors }

InitPager ==
    /\ pc = "pager"
    /\ LOGIN = <<"a">>
    /\ cursor = None /\ repos = <<>> /\ total = 0
    /\ years = <<>> /\ yi = 1
    /\ repo_map = <<>> /\ phase = 1
    /\ merged = <<>>
    /\ contrib = NoContrib
    /\ NoDoc
    /\ hist = [HistInit EXCEPT !.readme0 = readme]

NextPager ==
    \/ GqlFail
    \/ \E page \in Pages(Len(hist.pages) + 1 < MaxPages) : PagerPage(page)

SpecPager == InitPager /\ [][NextPager]_vars

\* get_own_public_repos_and_total_stars() has returned
PagerReturned == pc \notin {"pager", "aborted"}

RECURSIVE AllNodes(_)
AllNodes(ps) == IF ps = <<>> THEN <<>> ELSE Head(ps).nodes \o AllNodes(Tail(ps))

AsNode(r) == Repo(r.name, r.url, r.stars, r.forks)

Times(list, x) == Cardinality({i \in 1..Len(list) : list[i] = x})

\* C10: the first request carries no cursor and each later one the
\* endCursor of the page before it; every page but the last received
\* reported a next page, and the pager returns exactly when a page reports
\* none; on return repos holds every node of every page exactly once and
\* total is the sum of their star counts.
C10_Pager ==
    LET reqs == hist.reqs
        pages == hist.pages
        nodes == AllNodes(pages)
    IN  /\ Len(reqs) = Len(pages)
        /\ Len(reqs) >= 1 => reqs[1] = None
        /\ \A i \in 2..Len(reqs) : reqs[i] = pages[i - 1].pageInfo.endCursor
        /\ \A i \in 1..(Len(pages) - 1) : pages[i].pageInfo.hasNextPage
        /\ (pc = "pager" /\ Len(pages) >= 1)
              => pages[Len(pages)].pageInfo.hasNextPage
        /\ PagerReturned =>
              /\ Len(pages) >= 1
              /\ ~pages[Len(pages)].pageInfo.hasNextPage
              /\ Len(repos) = Len(nodes)
              /\ \A i \in 1..Len(repos) :
                    Times(repos, repos[i]) = Times(nodes, AsNode(repos[i]))
              /\ total = SeqSum([i \in 1..Len(nodes) |-> nodes[i].stargazerCount])

\* the pager returned after two pages, the second requested with "c2"
C10_Witness ==
    /\ PagerReturned
    /\ Len(hist.pages) = 2
    /\ hist.reqs[2] = "c2"
    /\ Len(repos) >= 3
    /\ total >= 4

\* ------------------------------------------------------ the patcher alone
DocTokens == {START, END, "-"}

Docs == UNION { [1..k -> DocTokens] : k \in 0..MaxDoc }

BlockTokens == {"-", BSL, "2", END}

Blocks == UNION { [1..k -> BlockTokens] : k \in 0..MaxBlock }

InitPatch ==
    /\ pc = "read"
    /\ LOGIN = <<"a">>
    /\ cursor = None /\ repos = <<>> /\ total = 0
    /\ years = <<CurYear>> /\ yi = 2
    /\ repo_map = <<>> /\ phase = 1
    /\ merged = <<>>
    /\ contrib = NoContrib
    /\ block \in Blocks
    /\ readme \in Docs
    /\ content = <<>> /\ new = <<>> /\ out = <<>>
    /\ hist = [HistInit EXCEPT !.readme0 = readme]

\* the script is run once more, the collaborator answering as before: the
\* renderer, a function of the answers alone (lines 150-232), gives the same
\* block
RunAgain ==
    /\ pc = "done"
    /\ hist.run = 1
    /\ pc' = "read"
    /\ content' = <<>> /\ new' = <<>> /\ out' = <<>>
    /\ hist' = [hist EXCEPT !.run = 2, !.wrote = FALSE, !.wrote1 = hist.wrote,
                            !.readme0 = readme]
    /\ UNCHANGED <<LOGIN, cursor, repos, total, years, yi, repo_map, phase,
                   merged, contrib, block, readme>>

NextPatch ==
    \/ ReadDoc
    \/ Patch
    \/ WriteOrPrint
    \/ RunAgain

SpecPatch == InitPatch /\ [][NextPatch]_vars

Patched == pc \in {"write", "done"}

\* C4: when the text read has a start marker with an end marker after it,
\* the patched text is the text read with what stands between the first
\* start marker and the first end marker after it replaced by newline, block,
\* newline, and everything else as it was; otherwise it is the text read.
C4_MarkerReplacement ==
    LET i == FirstAt(content, START, 1)
        j == IF i = 0 THEN 0 ELSE FirstAt(content, END, i + 1)
    IN  /\ pc # "aborted"
        /\ Patched =>
              new = IF j = 0 THEN content
                    ELSE SubSeq(content, 1, i) \o <<NL>> \o block \o <<NL>>
                         \o SubSeq(content, j, Len(content))

\* the text re.sub puts in the place of the block and of the newline after
\* it, mid being the text it replaces
BlockText(b, mid) == Expand(b \o <<BSL, "n">>, << <<START>>, mid, <<END>> >>)

\* the block stands for a text without end marker that does not depend on
\* the text replaced
StableBlock(b) ==
    /\ TemplateOk(b \o <<BSL, "n">>)
    /\ END \notin Range(BlockText(b, <<>>))
    /\ BlockText(b, <<>>) = BlockText(b, <<"-">>)

SecondRunIdle ==
    /\ Patched => new = content
    /\ pc = "done" => /\ ~hist.wrote
                      /\ readme = hist.readme0
                      /\ out = <<"No changes.">>

C7_WriteIffChanged ==
    /\ pc = "done" =>
          /\ hist.wrote <=> new # content
          /\ hist.wrote => readme = new /\ out = <<"README updated.">>
          /\ ~hist.wrote => readme = hist.readme0 /\ out = <<"No changes.">>
    /\ pc # "done" => ~hist.wrote /\ readme = hist.readme0 /\ out = <<>>

\* a first run that wrote, then a second one that did not
C7_Witness ==
    /\ pc = "done"
    /\ hist.run = 2
    /\ hist.wrote1
    /\ ~hist.wrote
    /\ out = <<"No changes.">>

\* ------------------------------------------------------------- main()
MainPages(more) ==
    { [nodes |-> ns, pageInfo |-> [hasNextPage |-> h, endCursor |-> "c1"]] :
        ns \in { <<>>, <<Repo(<<"a", "/", "r", "-", "s">>, "u1", 2, 1)>> },
        h \in (IF more THEN BOOLEAN ELSE {FALSE}) }

MainYearLists == { <<>>, <<CurYear - 1>>, <<CurYear + 1>> }

MainEntries ==
    { [repository |-> Repo(<<"a", "/", "r", "-", "s">>, "u1", 2, 1),
       contributions |-> [totalCount |-> 1]],
      [repository |-> Repo(<<"b", "/", "q">>, "u2", 1, 0),
       contributions |-> [totalCount |-> 0]] }

MainDocs == { <<"-", START, "-", END, "-">>, <<"-">> }

Init ==
    /\ pc = "pager"
    /\ LOGIN = <<"A">>
    /\ cursor = None /\ repos = <<>> /\ total = 0
    /\ years = <<>> /\ yi = 1
    /\ repo_map = <<>> /\ phase = 1
    /\ merged = <<>>
    /\ contrib = NoContrib
    /\ block = <<>>
    /\ readme \in MainDocs
    /\ content = <<>> /\ new = <<>> /\ out = <<>>
    /\ hist = [HistInit EXCEPT !.readme0 = readme]

Next ==
    \/ GqlFail
    \/ \E page \in MainPages(Len(hist.pages) + 1 < MaxPages) : PagerPage(page)
    \/ \E ys \in MainYearLists : GetYears(ys)
    \/ CollectQuery
    \/ \E k \in 1..3, r \in MainEntries : AddEntry(k, r)
    \/ EndYear
    \/ Classify
    \/ Render
    \/ ReadDoc
    \/ Patch
    \/ WriteOrPrint

Spec == Init /\ [][Next]_vars

\* C6: once a collaborator call has raised, the run is over: no further
\* call is made, README.md is as the run found it, nothing is printed.
C6_FailFast ==
    hist.failed =>
        /\ pc = "aborted"
        /\ hist.calls = hist.failedAt
        /\ readme = hist.readme0
        /\ ~hist.wrote
        /\ out = <<>>

\* a query of the second year raised, after the pager, the years query and
\* the first year's query were answered
C6_Witness ==
    /\ hist.failed
    /\ Len(hist.pages) >= 1
    /\ Len(hist.queried) = 1
    /\ Len(years) = 2
    /\ hist.failedAt = Len(hist.pages) + 3
    /\ Len(merged) >= 1

====
